---- MODULE Spec2Model ----
(***************************************************************************)
(* Model of the signal preprocessing pipeline of preprocess_task.py:       *)
(* Windower, SignalFilter, TDExtractor and the SignalPreprocessor manager,  *)
(* with the feature functions of td_features.py.                           *)
(*                                                                         *)
(* A numpy array is a record [shape, flat]: its shape and its elements in  *)
(* row-major (C) order.  Indices are 0-based as in the source; flat is a    *)
(* TLA+ sequence, so element at offset o is flat[o + 1].                   *)
(***************************************************************************)
EXTENDS Integers, Sequences, FiniteSets, TLC

VARIABLES wd, ft, fe, tasks, reg, ready, last

vars == <<wd, ft, fe, tasks, reg, ready, last>>

(***************************************************************************)
(* Bounds of the model.                                                    *)
(***************************************************************************)
MaxDataLen == 6
MaxChannels == 2
MaxFeatures == 2
MaxFilters == 2
MaxTasks == 3
MaxWindows == 2

(***************************************************************************)
(* numpy arrays.                                                           *)
(***************************************************************************)
RECURSIVE Prod(_)
Prod(s) == IF Len(s) = 0 THEN 1 ELSE Head(s) * Prod(Tail(s))

RECURSIVE SumSeq(_)
SumSeq(s) == IF Len(s) = 0 THEN 0 ELSE Head(s) + SumSeq(Tail(s))

Abs(x) == IF x < 0 THEN -x ELSE x

Sign(x) == IF x < 0 THEN -1 ELSE IF x > 0 THEN 1 ELSE 0

Max2(a, b) == IF a > b THEN a ELSE b

Min2(a, b) == IF a < b THEN a ELSE b

Arr(shape, flat) == [shape |-> shape, flat |-> flat]

ndim(a) == Len(a.shape)

\* np.squeeze: every axis of length 1 is removed, the elements are unchanged
squeeze(a) == Arr(SelectSeq(a.shape, LAMBDA d : d # 1), a.flat)

\* data[np.newaxis, :]: a leading axis of length 1
newaxis(a) == Arr(<<1>> \o a.shape, a.flat)

\* the outcome of a call: the array it returns (NoArr when it returns None),
\* or the exception it raised; msg is the exception, or the text printed
NoArr == Arr(<<>>, <<>>)

Ok(a) == [ok |-> TRUE, msg |-> "", val |-> a]

Raise(e) == [ok |-> FALSE, msg |-> e, val |-> NoArr]

Printed(text) == [ok |-> TRUE, msg |-> text, val |-> NoArr]

\* np.arange(start, stop, step) for step > 0
arange(start, stop, step) ==
    LET n == IF stop <= start THEN 0 ELSE (stop - start + step - 1) \div step
    IN  [i \in 1..n |-> start + (i - 1) * step]

\* the Python slice x[lo:hi] of a sequence of length n, for 0 <= lo: the
\* offsets lo .. hi-1 that exist
SliceLen(n, lo, hi) == Max2(0, Min2(hi, n) - Min2(lo, n))

(***************************************************************************)
(* Windower                                                                *)
(***************************************************************************)
NoWindows == [none |-> TRUE, rows |-> <<>>]

Windower_init(data_len, win_len, overlap) ==
    [data_len |-> data_len, win_len |-> win_len, overlap |-> overlap,
     windows |-> NoWindows]

\* the guard of setup: the configurations it rejects with ValueError
Windower_setup_raises(self) ==
    \/ self.data_len <= 0
    \/ self.win_len > self.data_len
    \/ self.overlap >= self.win_len

\* setup with the last full window lost: arange stops one short
Windower_setup_windows_short(self) ==
    LET step  == self.win_len - self.overlap
        start == arange(0, self.data_len - self.win_len, step)
    IN  [i \in 1..Len(start) |-> <<start[i], start[i] + self.win_len>>]

\* the (start, end) rows setup stores
Windower_setup_windows(self) ==
    LET step  == self.win_len - self.overlap
        start == arange(0, self.data_len - self.win_len + 1, step)
    IN  [i \in 1..Len(start) |-> <<start[i], start[i] + self.win_len>>]

Windower_setup(self) ==
    IF Windower_setup_raises(self)
    THEN self
    ELSE [self EXCEPT !.windows =
              [none |-> FALSE, rows |-> Windower_setup_windows(self)]]

\* windowed[ch, i] = data[ch, w[0] : w[1]] is a broadcast assignment: the
\* slice must have win_len elements, or exactly one
Windower_row_fits(self, n, w) ==
    LET sl == SliceLen(n, w[1], w[2])
    IN  sl = self.win_len \/ sl = 1

\* the copy reading every window from channel 0
Windower_copy_channel0(self, data, n, ch, w, k) ==
    IF SliceLen(n, w[1], w[2]) = self.win_len
    THEN data.flat[w[1] + k + 1]
    ELSE data.flat[w[1] + 1]

\* element k of the slice data[ch, w[0] : w[1]] as stored in windowed[ch, i]
Windower_copy(self, data, n, ch, w, k) ==
    IF SliceLen(n, w[1], w[2]) = self.win_len
    THEN data.flat[ch * n + w[1] + k + 1]
    ELSE data.flat[ch * n + w[1] + 1]

\* the body of process up to the final squeeze: the windowed array
Windower_windowed(self, data0) ==
    IF ndim(data0) > 2 THEN Raise("ValueError")
    ELSE IF ndim(data0) = 0 THEN Raise("IndexError")
    ELSE
      LET data == IF ndim(data0) = 1 THEN newaxis(data0) ELSE data0
          num_channel == data.shape[1]
          n == data.shape[2]
      IN  IF self.windows.none THEN Raise("AttributeError")
          ELSE IF self.win_len < 0 THEN Raise("ValueError")
          ELSE
            LET rows == self.windows.rows
                W == Len(rows)
                L == self.win_len
            IN  IF num_channel > 0 /\ \E i \in 1..W : ~Windower_row_fits(self, n, rows[i])
                THEN Raise("ValueError")
                ELSE Ok(Arr(<<num_channel, W, L>>,
                        [o \in 1..(num_channel * W * L) |->
                            LET ch == (o - 1) \div (W * L)
                                i  == ((o - 1) % (W * L)) \div L
                                k  == (o - 1) % L
                            IN  Windower_copy(self, data, n, ch, rows[i + 1], k)]))

Windower_process(self, data) ==
    LET r == Windower_windowed(self, data)
    IN  IF r.ok THEN Ok(squeeze(r.val)) ELSE r

(***************************************************************************)
(* SignalFilter                                                            *)
(***************************************************************************)
SignalFilter_init(fs) == [fs |-> fs, filters |-> <<>>]

\* setup treating an empty filter list as an error
SignalFilter_setup_raises_empty(self) == self.fs <= 0 \/ Len(self.filters) = 0

SignalFilter_setup_raises(self) == self.fs <= 0

\* the outcome of setup: the error, or the warning printed for an empty list
SignalFilter_setup(self) ==
    IF SignalFilter_setup_raises(self) THEN Raise("ValueError")
    ELSE IF Len(self.filters) = 0 THEN Printed("No filters has been added")
    ELSE Ok(NoArr)

SignalFilter_add_filter(self, filter) ==
    [self EXCEPT !.filters = Append(self.filters, filter)]

\* scipy's filtfilt(b, a, x), outside this repository: a filter descriptor is
\* [id, ntaps] with ntaps = max(len(a), len(b)).  filtfilt pads each end with
\* padlen = 3 * ntaps samples and raises ValueError unless the last axis is
\* longer than that; the result has the shape of x.  The sample values it
\* computes are abstracted to an affine map that depends on the filter and
\* is never the identity.
filtfilt(filter, x) ==
    IF ndim(x) = 0 \/ x.shape[ndim(x)] <= 3 * filter.ntaps
    THEN Raise("ValueError")
    ELSE Ok(Arr(x.shape, [o \in 1..Len(x.flat) |-> 2 * x.flat[o] + filter.id]))

RECURSIVE SignalFilter_cascade(_, _)
SignalFilter_cascade(filters, res) ==
    IF Len(filters) = 0 THEN Ok(res)
    ELSE LET r == filtfilt(Head(filters), res)
         IN  IF r.ok THEN SignalFilter_cascade(Tail(filters), r.val) ELSE r

SignalFilter_process(self, data) == SignalFilter_cascade(self.filters, data)

(***************************************************************************)
(* td_features.py, on a 1-D window x (a sequence)                          *)
(***************************************************************************)
\* np.diff along the last axis
diff(x) == [k \in 1..(Len(x) - 1) |-> x[k + 1] - x[k]]

count_true(b) == Cardinality({k \in 1..Len(b) : b[k]})

zc(x) ==
    LET d == diff([k \in 1..Len(x) |-> Sign(x[k])])
    IN  count_true([k \in 1..Len(d) |-> d[k] # 0])

wl(x) ==
    LET d == diff(x)
    IN  SumSeq([k \in 1..Len(d) |-> Abs(d[k])])

wamp_threshold == 5

wamp_5(x) ==
    LET d == diff(x)
    IN  count_true([k \in 1..Len(d) |-> Abs(d[k]) > wamp_threshold])

\* sum((diff[:-1] * diff[1:]) < 0) on a 1-D window
ssc(x) ==
    LET d == diff(x)
    IN  count_true([k \in 1..(Len(d) - 1) |-> d[k] * d[k + 1] < 0])

feature_1d(method, x) ==
    CASE method = "zc" -> zc(x)
      [] method = "wl" -> wl(x)
      [] method = "wamp_5" -> wamp_5(x)
      [] method = "ssc" -> ssc(x)

\* the samples data[c, w, :] of a rank-3 array
window(data, c, w) ==
    LET s1 == data.shape[2]
        n  == data.shape[3]
    IN  [k \in 1..n |-> data.flat[(c * s1 + w) * n + k]]

\* ssc called on a whole rank-3 array: np.diff runs along the last axis, but
\* diff[:-1] and diff[1:] slice the FIRST axis and np.sum adds everything up,
\* so the call returns one number
ssc_whole(data) ==
    LET s0 == data.shape[1]
        s1 == data.shape[2]
        n  == data.shape[3]
    IN  Cardinality({t \in (0..(s0 - 2)) \X (0..(s1 - 1)) \X (1..(n - 1)) :
            diff(window(data, t[1], t[2]))[t[3]]
              * diff(window(data, t[1] + 1, t[2]))[t[3]] < 0})

\* method(data) on a whole rank-3 array, as assigned to res[:, :, i]: the
\* axis=-1 functions give one value per (c, w); the number ssc gives is
\* broadcast over the slice
feature_whole(method, data, c, w) ==
    IF method = "ssc" THEN ssc_whole(data)
    ELSE feature_1d(method, window(data, c, w))

\* np.apply_along_axis(method, axis=-1, arr=data) at (c, w)
apply_along_axis(method, data, c, w) == feature_1d(method, window(data, c, w))

(***************************************************************************)
(* TDExtractor                                                             *)
(***************************************************************************)
TDExtractor_init == [feature_methods |-> <<>>, vec |-> <<>>]

\* [tag] * len(feature_methods)
repeat(tag, n) == [i \in 1..n |-> tag]

\* the argument of add_*: [iterable |-> TRUE, items |-> a list of methods] or
\* [iterable |-> FALSE, items |-> <<one method>>]
TDExtractor_add_vectorised_features(self, arg) ==
    IF arg.iterable
    THEN [feature_methods |-> self.feature_methods \o arg.items,
          vec |-> self.vec \o repeat(TRUE, Len(arg.items))]
    ELSE [feature_methods |-> Append(self.feature_methods, arg.items[1]),
          vec |-> Append(self.vec, TRUE)]

\* add_features tagging a whole list with a single False
TDExtractor_add_features_one_tag(self, arg) ==
    IF arg.iterable
    THEN [feature_methods |-> self.feature_methods \o arg.items,
          vec |-> Append(self.vec, FALSE)]
    ELSE [feature_methods |-> Append(self.feature_methods, arg.items[1]),
          vec |-> Append(self.vec, FALSE)]

TDExtractor_add_features(self, arg) ==
    IF arg.iterable
    THEN [feature_methods |-> self.feature_methods \o arg.items,
          vec |-> self.vec \o repeat(FALSE, Len(arg.items))]
    ELSE [feature_methods |-> Append(self.feature_methods, arg.items[1]),
          vec |-> Append(self.vec, FALSE)]

TDExtractor_setup_raises(self) == Len(self.feature_methods) = 0

\* the dispatch with the test of the tag inverted
TDExtractor_dispatch_inverted(self, data, c, w, i) ==
    IF ~self.vec[i + 1]
    THEN feature_whole(self.feature_methods[i + 1], data, c, w)
    ELSE apply_along_axis(self.feature_methods[i + 1], data, c, w)

\* the value the loop stores at res[c, w, i] (i 0-based)
TDExtractor_dispatch(self, data, c, w, i) ==
    IF self.vec[i + 1]
    THEN feature_whole(self.feature_methods[i + 1], data, c, w)
    ELSE apply_along_axis(self.feature_methods[i + 1], data, c, w)

\* the body of process up to the final squeeze: the feature array.  The
\* inputs of the model have rank 3 at most.
TDExtractor_features(self, data0) ==
    LET data == IF ndim(data0) = 2 THEN newaxis(data0) ELSE data0
    IN  IF ndim(data) < 2 THEN Raise("IndexError")
        ELSE
          LET s0 == data.shape[1]
              s1 == data.shape[2]
              F  == Len(self.feature_methods)
          IN  Ok(Arr(<<s0, s1, F>>,
                  [o \in 1..(s0 * s1 * F) |->
                      LET c == (o - 1) \div (s1 * F)
                          w == ((o - 1) % (s1 * F)) \div F
                          i == (o - 1) % F
                      IN  TDExtractor_dispatch(self, data, c, w, i)]))

TDExtractor_process(self, data) ==
    LET r == TDExtractor_features(self, data)
    IN  IF r.ok THEN Ok(squeeze(r.val)) ELSE r

(***************************************************************************)
(* SignalPreprocessor.  The manager holds its tasks by reference: a task   *)
(* is the name of one of the three stage objects wd, ft, fe.               *)
(***************************************************************************)
TaskNames == {"wd", "ft", "fe"}

\* the argument of add_tasks: [iterable |-> TRUE, items |-> a list of tasks]
\* or [iterable |-> FALSE, items |-> <<one task>>]
add_tasks_list(self, arg) ==
    IF arg.iterable THEN self \o arg.items ELSE Append(self, arg.items[1])

\* task.setup() of the task named t, with the Windower in state w
task_setup_raises(t, w) ==
    CASE t = "wd" -> Windower_setup_raises(w)
      [] t = "ft" -> SignalFilter_setup_raises(ft)
      [] t = "fe" -> TDExtractor_setup_raises(fe)

task_setup(t, w) == IF t = "wd" THEN Windower_setup(w) ELSE w

\* task.process(res) of the task named t
task_process(t, res) ==
    CASE t = "wd" -> Windower_process(wd, res)
      [] t = "ft" -> SignalFilter_process(ft, res)
      [] t = "fe" -> TDExtractor_process(fe, res)

Call(t, arg, out) == [task |-> t, arg |-> arg, out |-> out]

\* setup_tasks catching a failure and going on with the next task, the
\* failure reported at the end
RECURSIVE setup_tasks_loop_goes_on(_, _, _)
setup_tasks_loop_goes_on(ts, w, log) ==
    IF Len(ts) = 0
    THEN [wd |-> w, log |-> log,
          out |-> IF \E i \in 1..Len(log) : ~log[i].out.ok
                  THEN Raise("ValueError") ELSE Ok(NoArr)]
    ELSE
      LET t == Head(ts)
      IN  IF task_setup_raises(t, w)
          THEN setup_tasks_loop_goes_on(Tail(ts), w,
                   Append(log, Call(t, NoArr, Raise("ValueError"))))
          ELSE setup_tasks_loop_goes_on(Tail(ts), task_setup(t, w),
                   Append(log, Call(t, NoArr, Ok(NoArr))))

\* the loop of setup_tasks over the tasks ts still to set up: the Windower
\* it leaves, the calls it made and how it ended
RECURSIVE setup_tasks_loop(_, _, _)
setup_tasks_loop(ts, w, log) ==
    IF Len(ts) = 0 THEN [wd |-> w, log |-> log, out |-> Ok(NoArr)]
    ELSE
      LET t == Head(ts)
      IN  IF task_setup_raises(t, w)
          THEN [wd |-> w,
                log |-> Append(log, Call(t, NoArr, Raise("ValueError"))),
                out |-> Raise("ValueError")]
          ELSE setup_tasks_loop(Tail(ts), task_setup(t, w),
                                Append(log, Call(t, NoArr, Ok(NoArr))))

\* process_tasks handing every task the value the loop started with
RECURSIVE process_tasks_loop_same_input(_, _, _)
process_tasks_loop_same_input(ts, res, log) ==
    IF Len(ts) = 0
    THEN [log |-> log,
          out |-> IF Len(log) = 0 THEN Ok(res) ELSE log[Len(log)].out]
    ELSE
      LET t == Head(ts)
          r == task_process(t, res)
      IN  IF r.ok
          THEN process_tasks_loop_same_input(Tail(ts), res, Append(log, Call(t, res, r)))
          ELSE [log |-> Append(log, Call(t, res, r)), out |-> r]

\* the loop of process_tasks over the tasks ts still to run, res being the
\* value that reaches the first of them
RECURSIVE process_tasks_loop(_, _, _)
process_tasks_loop(ts, res, log) ==
    IF Len(ts) = 0 THEN [log |-> log, out |-> Ok(res)]
    ELSE
      LET t == Head(ts)
          r == task_process(t, res)
      IN  IF r.ok
          THEN process_tasks_loop(Tail(ts), r.val, Append(log, Call(t, res, r)))
          ELSE [log |-> Append(log, Call(t, res, r)), out |-> r]

(***************************************************************************)
(* State.  wd, ft, fe are the three stage objects and tasks the manager's  *)
(* list.  last records the latest call: its name, its array argument, the  *)
(* array before the final squeeze (pre), what it returned or raised (out)  *)
(* and the calls it made on the tasks (log).  reg and ready are history:   *)
(* reg lists the feature registrations in call order, ready the outcome of *)
(* the latest setup_tasks and the task list it ran over.                   *)
(***************************************************************************)
Record(op, arg, pre, out, log) ==
    [op |-> op, arg |-> arg, pre |-> pre, out |-> out, log |-> log]

NoCall == Record("init", NoArr, Ok(NoArr), Ok(NoArr), <<>>)

NotReady == [called |-> FALSE, ok |-> FALSE, tasks |-> <<>>]

\* Windower.setup()
Windower_setup_call ==
    /\ wd' = Windower_setup(wd)
    /\ last' = Record("Windower.setup", NoArr, Ok(NoArr),
                      IF Windower_setup_raises(wd) THEN Raise("ValueError")
                      ELSE Ok(NoArr), <<>>)
    /\ UNCHANGED <<ft, fe, tasks, reg, ready>>

\* Windower.process(data)
Windower_process_call(data) ==
    /\ last' = Record("Windower.process", data, Windower_windowed(wd, data),
                      Windower_process(wd, data), <<>>)
    /\ UNCHANGED <<wd, ft, fe, tasks, reg, ready>>

\* SignalFilter.add_filter(filter)
SignalFilter_add_filter_call(filter) ==
    /\ Len(ft.filters) < MaxFilters
    /\ ft' = SignalFilter_add_filter(ft, filter)
    /\ last' = Record("SignalFilter.add_filter", NoArr, Ok(NoArr), Ok(NoArr), <<>>)
    /\ UNCHANGED <<wd, fe, tasks, reg, ready>>

\* SignalFilter.setup()
SignalFilter_setup_call ==
    /\ last' = Record("SignalFilter.setup", NoArr, Ok(NoArr),
                      SignalFilter_setup(ft), <<>>)
    /\ UNCHANGED <<wd, ft, fe, tasks, reg, ready>>

\* SignalFilter.process(data)
SignalFilter_process_call(data) ==
    /\ last' = Record("SignalFilter.process", data, SignalFilter_process(ft, data),
                      SignalFilter_process(ft, data), <<>>)
    /\ UNCHANGED <<wd, ft, fe, tasks, reg, ready>>

Registered(arg, tag) ==
    [i \in 1..Len(arg.items) |-> [method |-> arg.items[i], vectorised |-> tag]]

\* TDExtractor.add_vectorised_features(arg)
TDExtractor_add_vectorised_features_call(arg) ==
    /\ Len(fe.feature_methods) + Len(arg.items) <= MaxFeatures
    /\ fe' = TDExtractor_add_vectorised_features(fe, arg)
    /\ reg' = reg \o Registered(arg, TRUE)
    /\ last' = Record("TDExtractor.add_vectorised_features", NoArr, Ok(NoArr),
                      Ok(NoArr), <<>>)
    /\ UNCHANGED <<wd, ft, tasks, ready>>

\* TDExtractor.add_features(arg)
TDExtractor_add_features_call(arg) ==
    /\ Len(fe.feature_methods) + Len(arg.items) <= MaxFeatures
    /\ fe' = TDExtractor_add_features(fe, arg)
    /\ reg' = reg \o Registered(arg, FALSE)
    /\ last' = Record("TDExtractor.add_features", NoArr, Ok(NoArr), Ok(NoArr), <<>>)
    /\ UNCHANGED <<wd, ft, tasks, ready>>

\* TDExtractor.setup()
TDExtractor_setup_call ==
    /\ last' = Record("TDExtractor.setup", NoArr, Ok(NoArr),
                      IF TDExtractor_setup_raises(fe) THEN Raise("ValueError")
                      ELSE Ok(NoArr), <<>>)
    /\ UNCHANGED <<wd, ft, fe, tasks, reg, ready>>

\* TDExtractor.process(data)
TDExtractor_process_call(data) ==
    /\ last' = Record("TDExtractor.process", data, TDExtractor_features(fe, data),
                      TDExtractor_process(fe, data), <<>>)
    /\ UNCHANGED <<wd, ft, fe, tasks, reg, ready>>

\* SignalPreprocessor.add_tasks(arg)
add_tasks(arg) ==
    /\ Len(tasks) + Len(arg.items) <= MaxTasks
    /\ tasks' = add_tasks_list(tasks, arg)
    /\ last' = Record("add_tasks", NoArr, Ok(NoArr), Ok(NoArr), <<>>)
    /\ UNCHANGED <<wd, ft, fe, reg, ready>>

\* SignalPreprocessor.setup_tasks()
setup_tasks ==
    LET run == setup_tasks_loop(tasks, wd, <<>>)
    IN  /\ wd' = run.wd
        /\ ready' = [called |-> TRUE, ok |-> run.out.ok, tasks |-> tasks]
        /\ last' = Record("setup_tasks", NoArr, Ok(NoArr), run.out, run.log)
        /\ UNCHANGED <<ft, fe, tasks, reg>>

\* SignalPreprocessor.process_tasks(data)
process_tasks(data) ==
    LET run == process_tasks_loop(tasks, data, <<>>)
    IN  /\ last' = Record("process_tasks", data, run.out, run.out, run.log)
        /\ UNCHANGED <<wd, ft, fe, tasks, reg, ready>>

(***************************************************************************)
(* Inputs.  Ramp(shape, base) holds base, base+1, ... in row-major order:   *)
(* no two elements are equal and none is 0, so a value names the position  *)
(* it was copied from and differs from the zeros np.zeros fills in.        *)
(***************************************************************************)
Ramp(shape, base) == Arr(shape, [o \in 1..Prod(shape) |-> base + o - 1])

Bases == {1, 11}

Elements(a) == {a.flat[o] : o \in 1..Len(a.flat)}

DefaultFilter == SignalFilter_init(200)

(***************************************************************************)
(* SpecWin: one Windower, of any configuration, set up and applied.        *)
(***************************************************************************)
Windowers ==
    {Windower_init(d, w, o) : d \in (-1)..MaxDataLen,
                              w \in (-1)..(MaxDataLen + 1),
                              o \in (-2)..MaxDataLen}
      \cup {Windower_init(100, 50, 40)}

WinShapes ==
    {<<n>> : n \in 0..MaxDataLen}
      \cup {<<c, n>> : c \in 1..MaxChannels, n \in 0..MaxDataLen}
      \cup {<<1, 1, n>> : n \in 1..MaxDataLen}
      \cup {<<100>>, <<2, 100>>}

WinInputs == {Ramp(s, b) : s \in WinShapes, b \in Bases}

InitWin ==
    /\ wd \in Windowers
    /\ ft = DefaultFilter
    /\ fe = TDExtractor_init
    /\ tasks = <<>>
    /\ reg = <<>>
    /\ ready = NotReady
    /\ last = NoCall

NextWin ==
    \/ Windower_setup_call
    \/ \E data \in WinInputs : Windower_process_call(data)

SpecWin == InitWin /\ [][NextWin]_vars

\* the windows a configuration is specified to have
WindowCount(self) ==
    ((self.data_len - self.win_len) \div (self.win_len - self.overlap)) + 1

ValidConfig(self) ==
    0 < self.overlap /\ self.overlap < self.win_len /\ self.win_len <= self.data_len

\* C3: for 0 < overlap < win_len <= data_len the windows setup stores number
\* floor((data_len - win_len) / (win_len - overlap)) + 1, the first starts at
\* 0, each has end - start = win_len and end <= data_len, each starts
\* win_len - overlap after the one before; (100, 50, 40) gives the starts
\* 0, 10, 20, 30, 40, 50.
Thm_C3 ==
    (~wd.windows.none /\ ValidConfig(wd)) =>
        LET rows == wd.windows.rows
        IN  /\ Len(rows) = WindowCount(wd)
            /\ rows[1][1] = 0
            /\ \A i \in 1..Len(rows) :
                   /\ rows[i][2] - rows[i][1] = wd.win_len
                   /\ rows[i][2] <= wd.data_len
            /\ \A i \in 1..(Len(rows) - 1) :
                   rows[i + 1][1] = rows[i][1] + wd.win_len - wd.overlap
            /\ (wd.data_len = 100 /\ wd.win_len = 50 /\ wd.overlap = 40) =>
                   [i \in 1..Len(rows) |-> rows[i][1]] = <<0, 10, 20, 30, 40, 50>>

\* a set-up valid Windower with several windows and trailing samples dropped
Wit_C3 ==
    /\ ~wd.windows.none
    /\ ValidConfig(wd)
    /\ Len(wd.windows.rows) >= 2
    /\ wd.windows.rows[Len(wd.windows.rows)][2] < wd.data_len
    /\ last.op = "Windower.setup"

\* C6: setup raises and leaves the windows unset whenever data_len <= 0,
\* win_len <= 0, win_len > data_len or overlap >= win_len; so every stored
\* window has end - start = win_len > 0 and 0 <= start < end <= data_len.
Claim_C6 ==
    LET bad == \/ wd.data_len <= 0
               \/ wd.win_len <= 0
               \/ wd.win_len > wd.data_len
               \/ wd.overlap >= wd.win_len
    IN  /\ bad => wd.windows.none
        /\ (bad /\ last.op = "Windower.setup") => ~last.out.ok
        /\ ~wd.windows.none =>
              \A i \in 1..Len(wd.windows.rows) :
                  LET w == wd.windows.rows[i]
                  IN  /\ w[2] - w[1] = wd.win_len
                      /\ wd.win_len > 0
                      /\ 0 <= w[1] /\ w[1] < w[2] /\ w[2] <= wd.data_len

Filters == {[id |-> 1, ntaps |-> 1], [id |-> 3, ntaps |-> 2]}

SamplingRates == {-1, 0, 1, 200}

FilterShapes ==
    {<<n>> : n \in 0..(MaxDataLen + 1)}
      \cup {<<c, n>> : c \in 1..MaxChannels, n \in 0..(MaxDataLen + 1)}
      \cup {<<c, w, n>> : c \in 1..MaxChannels, w \in 1..MaxWindows,
                          n \in {3, 4}}

FilterInputs == {Ramp(s, b) : s \in FilterShapes, b \in Bases}

InitFilter ==
    /\ wd = Windower_init(MaxDataLen, 2, 1)
    /\ ft \in {SignalFilter_init(fs) : fs \in SamplingRates}
    /\ fe = TDExtractor_init
    /\ tasks = <<>>
    /\ reg = <<>>
    /\ ready = NotReady
    /\ last = NoCall

NextFilter ==
    \/ \E filter \in Filters : SignalFilter_add_filter_call(filter)
    \/ SignalFilter_setup_call
    \/ \E data \in FilterInputs : SignalFilter_process_call(data)

SpecFilter == InitFilter /\ [][NextFilter]_vars

\* C9: with no filter registered, setup raises exactly when fs <= 0 and
\* otherwise succeeds with nothing more than a printed warning, and process
\* returns its input unchanged, values and shape.
Thm_C9 ==
    Len(ft.filters) = 0 =>
        /\ last.op = "SignalFilter.setup" =>
               /\ ~last.out.ok <=> ft.fs <= 0
               /\ last.out.ok => last.out = Printed("No filters has been added")
        /\ last.op = "SignalFilter.process" => last.out = Ok(last.arg)

\* an empty cascade applied to a two-channel signal
Wit_C9 ==
    /\ Len(ft.filters) = 0
    /\ ft.fs > 0
    /\ last.op = "SignalFilter.process"
    /\ ndim(last.arg) = 2
    /\ Len(last.arg.flat) >= 4

(***************************************************************************)
(* SpecTD: one TDExtractor, features registered, set up and applied.       *)
(***************************************************************************)
\* the functions registered here: two that reduce the last axis of any
\* array and the one that needs a 1-D window
Methods == {"wl", "wamp_5", "ssc"}

\* the functions of td_features.py that reduce the last axis of any array
LastAxisReductions == {"zc", "wl", "wamp_5"}

\* the arguments of add_features / add_vectorised_features: one function, or
\* a list of at most two (the empty list included)
FeatureArgs ==
    {[iterable |-> FALSE, items |-> <<m>>] : m \in Methods}
      \cup {[iterable |-> TRUE, items |-> <<>>]}
      \cup {[iterable |-> TRUE, items |-> <<m>>] : m \in Methods}
      \cup {[iterable |-> TRUE, items |-> <<m1, m2>>] : m1 \in Methods, m2 \in Methods}

\* sample values of both signs, with steps above and below the wamp threshold
Samples == <<-3, 4, 0, 9, -8, 1, 2>>

Zigzag(shape, seed) ==
    Arr(shape, [o \in 1..Prod(shape) |-> Samples[((o * seed) % Len(Samples)) + 1]])

\* window lengths: empty, and enough for every feature
WindowLens == {0, 3}

Seeds == {1, 2}

TDShapes ==
    {<<3>>, <<MaxWindows, 1>>, <<MaxWindows, 3>>}
      \cup {<<c, w, n>> : c \in 1..MaxChannels, w \in 1..MaxWindows,
                          n \in WindowLens}

TDInputs == {Zigzag(s, seed) : s \in TDShapes, seed \in Seeds}

InitTD ==
    /\ wd = Windower_init(MaxDataLen, 2, 1)
    /\ ft = DefaultFilter
    /\ fe = TDExtractor_init
    /\ tasks = <<>>
    /\ reg = <<>>
    /\ ready = NotReady
    /\ last = NoCall

NextTD ==
    \/ \E arg \in FeatureArgs : TDExtractor_add_vectorised_features_call(arg)
    \/ \E arg \in FeatureArgs : TDExtractor_add_features_call(arg)
    \/ TDExtractor_setup_call
    \/ \E data \in TDInputs : TDExtractor_process_call(data)

SpecTD == InitTD /\ [][NextTD]_vars

\* element (c, w, i) of a rank-3 feature array, 0-based
At3(a, c, w, i) == a.flat[(c * a.shape[2] + w) * a.shape[3] + i + 1]

\* C5: on a (channel, window, sample) input the feature array before the
\* squeeze has one slice per registration, in registration order, and slice
\* i at (c, w) is function i applied to the samples of window (c, w), for a
\* function registered as scalar and for one registered as vectorised that
\* reduces the last axis; so one reduction registered both ways fills two
\* equal slices.
Thm_C5 ==
    (last.op = "TDExtractor.process" /\ ndim(last.arg) = 3) =>
        LET data == last.arg
            s0   == data.shape[1]
            s1   == data.shape[2]
            res  == last.pre.val
        IN  /\ last.pre.ok
            /\ res.shape = <<s0, s1, Len(reg)>>
            /\ Len(res.flat) = s0 * s1 * Len(reg)
            /\ \A i \in 1..Len(reg) :
                   (reg[i].vectorised => reg[i].method \in LastAxisReductions) =>
                       \A c \in 0..(s0 - 1), w \in 0..(s1 - 1) :
                           At3(res, c, w, i - 1)
                             = feature_1d(reg[i].method, window(data, c, w))
            /\ \A i \in 1..Len(reg), j \in 1..Len(reg) :
                   (/\ reg[i].method = reg[j].method
                    /\ reg[i].method \in LastAxisReductions
                    /\ reg[i].vectorised /\ ~reg[j].vectorised) =>
                       \A c \in 0..(s0 - 1), w \in 0..(s1 - 1) :
                           At3(res, c, w, i - 1) = At3(res, c, w, j - 1)

\* one reduction registered both ways, applied to two channels of two
\* windows whose values differ from window to window
Wit_C5 ==
    /\ last.op = "TDExtractor.process"
    /\ ndim(last.arg) = 3
    /\ last.arg.shape[1] = 2 /\ last.arg.shape[2] = 2 /\ last.arg.shape[3] >= 3
    /\ Len(reg) = 2
    /\ reg[1].method = reg[2].method
    /\ reg[1].vectorised /\ ~reg[2].vectorised
    /\ last.pre.ok
    /\ At3(last.pre.val, 0, 0, 0) # At3(last.pre.val, 1, 1, 0)
    /\ At3(last.pre.val, 0, 1, 1) # At3(last.pre.val, 1, 0, 1)

IsPrefix(s, t) == Len(s) <= Len(t) /\ \A i \in 1..Len(s) : s[i] = t[i]

Inv_C10 ==
    /\ Len(fe.vec) = Len(fe.feature_methods)
    /\ Len(fe.vec) = Len(reg)
    /\ \A i \in 1..Len(reg) :
           /\ fe.feature_methods[i] = reg[i].method
           /\ fe.vec[i] = reg[i].vectorised
    /\ (last.op = "TDExtractor.process" /\ ndim(last.arg) = 3) =>
           \A i \in 1..Len(reg), c \in 0..(last.arg.shape[1] - 1),
              w \in 0..(last.arg.shape[2] - 1) :
               At3(last.pre.val, c, w, i - 1)
                 = IF reg[i].vectorised
                   THEN feature_whole(reg[i].method, last.arg, c, w)
                   ELSE apply_along_axis(reg[i].method, last.arg, c, w)

\* C10: after any registrations, vec is as long as feature_methods, entry i
\* of the two is the i-th function registered and whether it came through
\* add_vectorised_features, no call removes or changes an earlier entry, and
\* process calls function i the way it was registered.
Thm_C10 ==
    /\ []Inv_C10
    /\ [][/\ IsPrefix(fe.feature_methods, fe.feature_methods')
          /\ IsPrefix(fe.vec, fe.vec')]_vars

\* a scalar function registered after a vectorised one
Wit_C10 ==
    /\ Len(reg) = 2
    /\ Len(fe.vec) = 2
    /\ reg[1].vectorised /\ ~reg[2].vectorised
    /\ last.op = "TDExtractor.add_features"

(***************************************************************************)
(* Spec: the manager over three configured stages.  Tasks are registered   *)
(* one at a time or as lists, set up and run, in any order of calls.       *)
(***************************************************************************)
\* the arguments of add_tasks: one task, or a list of at most two
TaskArgs ==
    {[iterable |-> FALSE, items |-> <<t>>] : t \in TaskNames}
      \cup {[iterable |-> TRUE, items |-> <<>>]}
      \cup {[iterable |-> TRUE, items |-> <<t>>] : t \in TaskNames}
      \cup {[iterable |-> TRUE, items |-> <<t1, t2>>] : t1 \in TaskNames, t2 \in TaskNames}

\* two windows of 4 samples; a window longer than the signal
PipeWindowers ==
    {Windower_init(MaxDataLen, 4, 2), Windower_init(MaxDataLen, MaxDataLen + 1, 1)}

\* a bad sampling rate with one filter; a good one with one filter; a good
\* one with no filter
PipeFilters ==
    {SignalFilter_add_filter(SignalFilter_init(0), [id |-> 1, ntaps |-> 1]),
     SignalFilter_add_filter(SignalFilter_init(200), [id |-> 1, ntaps |-> 1]),
     SignalFilter_init(200)}

\* the registrations made on the extractor: none, or wl as vectorised and
\* ssc as scalar
PipeRegistrations ==
    {<<>>, <<[method |-> "wl", vectorised |-> TRUE],
             [method |-> "ssc", vectorised |-> FALSE]>>}

\* the extractor after the registrations r
Extractor(r) ==
    [feature_methods |-> [i \in 1..Len(r) |-> r[i].method],
     vec |-> [i \in 1..Len(r) |-> r[i].vectorised]]

PipeInputs ==
    {Ramp(<<MaxDataLen>>, 1), Ramp(<<MaxChannels, MaxDataLen>>, 1),
     Zigzag(<<MaxChannels, MaxDataLen>>, 1), Ramp(<<1, MaxChannels, MaxDataLen>>, 1)}

Init ==
    /\ wd \in PipeWindowers
    /\ ft \in PipeFilters
    /\ reg \in PipeRegistrations
    /\ fe = Extractor(reg)
    /\ tasks = <<>>
    /\ ready = NotReady
    /\ last = NoCall

Next ==
    \/ \E arg \in TaskArgs : add_tasks(arg)
    \/ setup_tasks
    \/ \E data \in PipeInputs : process_tasks(data)

Spec == Init /\ [][Next]_vars

\* C1: process_tasks calls process on the registered tasks in registration
\* order, once each, the first on data and every other on the output of the
\* one before, and returns the output of the last; with no task it returns
\* data.  A call that raises ends the run there with that error.
Thm_C1 ==
    last.op = "process_tasks" =>
        LET log == last.log
            n   == Len(log)
        IN  /\ n <= Len(tasks)
            /\ \A i \in 1..n :
                   /\ log[i].task = tasks[i]
                   /\ log[i].out = task_process(tasks[i], log[i].arg)
                   /\ log[i].arg = IF i = 1 THEN last.arg ELSE log[i - 1].out.val
            /\ \A i \in 1..(n - 1) : log[i].out.ok
            /\ last.out.ok =>
                   /\ n = Len(tasks)
                   /\ last.out.val = IF n = 0 THEN last.arg ELSE log[n].out.val
            /\ ~last.out.ok => (n >= 1 /\ log[n].out = last.out)

\* the pipeline of example.py, windower then filter then extractor, run to
\* its end
Wit_C1 ==
    /\ last.op = "process_tasks"
    /\ tasks = <<"wd", "ft", "fe">>
    /\ Len(ft.filters) = 1
    /\ last.out.ok
    /\ Len(last.log) = 3
    /\ last.log[2].out.val # last.log[2].arg
    /\ last.out.val.shape = <<MaxChannels, 2, 2>>

\* C2: process_tasks returns a result only after a setup_tasks call that
\* completed without a failure for the tasks now registered; if setup_tasks
\* was never called, or raised, process_tasks produces no output.  A
\* manager with no task has nothing to set up and is left out.
Claim_C2 ==
    (last.op = "process_tasks" /\ last.out.ok /\ Len(tasks) > 0) =>
        (ready.called /\ ready.ok /\ ready.tasks = tasks)

\* C7: setup_tasks calls setup on the tasks in registration order, once
\* each; when the setup at position k raises, setup_tasks raises that error
\* at once, with a call on every position before k and none after it; when
\* none raises, every task has had its call.
Thm_C7 ==
    last.op = "setup_tasks" =>
        LET log == last.log
            n   == Len(log)
        IN  /\ n <= Len(tasks)
            /\ \A i \in 1..n :
                   /\ log[i].task = tasks[i]
                   /\ log[i].out.ok <=> ~task_setup_raises(tasks[i], wd)
            /\ \A i \in 1..(n - 1) : log[i].out.ok
            /\ last.out.ok => (n = Len(tasks) /\ \A i \in 1..n : log[i].out.ok)
            /\ ~last.out.ok => (n >= 1 /\ log[n].out = last.out)
            /\ (\E i \in 1..n : log[i].task = "wd" /\ log[i].out.ok)
                   => ~wd.windows.none

\* the second of three tasks fails its setup
Wit_C7 ==
    /\ last.op = "setup_tasks"
    /\ Len(tasks) = 3
    /\ Len(last.log) = 2
    /\ ~last.out.ok
    /\ tasks[2] # tasks[3]

(***************************************************************************)
(* SpecShape: the pipeline [Windower, TDExtractor] for every configuration *)
(* of the Windower and every number of features.                           *)
(***************************************************************************)
ShapeWindowers ==
    {Windower_init(d, w, o) : d \in 1..MaxDataLen, w \in 1..MaxDataLen,
                              o \in 0..(MaxDataLen - 1)}

AllRegistrations ==
    <<[method |-> "wl", vectorised |-> TRUE],
      [method |-> "ssc", vectorised |-> FALSE],
      [method |-> "zc", vectorised |-> TRUE],
      [method |-> "wamp_5", vectorised |-> FALSE]>>

ShapeRegistrations ==
    {SubSeq(AllRegistrations, 1, f) : f \in 1..Min2(MaxFeatures, Len(AllRegistrations))}

ShapeInputs ==
    {Ramp(<<n>>, 1) : n \in 1..MaxDataLen}
      \cup {Ramp(<<c, n>>, 1) : c \in 1..MaxChannels, n \in 1..MaxDataLen}

InitShape ==
    /\ wd \in ShapeWindowers
    /\ ft = DefaultFilter
    /\ reg \in ShapeRegistrations
    /\ fe = Extractor(reg)
    /\ tasks = <<>>
    /\ ready = NotReady
    /\ last = NoCall

NextShape ==
    \/ add_tasks([iterable |-> TRUE, items |-> <<"wd", "fe">>])
    \/ setup_tasks
    \/ \E data \in ShapeInputs : process_tasks(data)

SpecShape == InitShape /\ [][NextShape]_vars

\* C4: the pipeline [Windower, TDExtractor] that passed setup, given C
\* channels of data_len samples as (C, data_len), or as (data_len,) when
\* C = 1, returns an array of shape (C, W, F) less its axes of length 1,
\* W = floor((data_len - win_len) / (win_len - overlap)) + 1 and F the
\* number of features, whichever of C, W, F are 1 and whatever win_len.
Claim_C4 ==
    (/\ last.op = "process_tasks"
     /\ tasks = <<"wd", "fe">>
     /\ ready.called /\ ready.ok /\ ready.tasks = tasks
     /\ ndim(last.arg) \in {1, 2}
     /\ last.arg.shape[ndim(last.arg)] = wd.data_len) =>
        LET C == IF ndim(last.arg) = 1 THEN 1 ELSE last.arg.shape[1]
            W == WindowCount(wd)
            F == Len(reg)
        IN  /\ last.out.ok
            /\ last.out.val.shape = SelectSeq(<<C, W, F>>, LAMBDA d : d # 1)

====
